---- MODULE Spec2Model ----
(***************************************************************************)
(* Model of telegram_vplink_bot.py: the channel-post handler, the          *)
(* destination resolver (API lookup, then depth-bounded page scraping),    *)
(* the re-shortener and the text rewriting done with str.replace.          *)
(* Python strings are TLA+ strings; the string operators below are the     *)
(* Python/regex operations the code uses, computed character by character. *)
(***************************************************************************)
EXTENDS Integers, Sequences, FiniteSets, TLC

\* Python's None, and the value standing for an exception leaving a function.
None == "<None>"
Raised == "<raised>"

(***************************************************************************)
(* String primitives                                                       *)
(***************************************************************************)

\* s[i-1] in Python terms: the i-th character (1-based), "" past the end.
CharAt(s, i) == IF i >= 1 /\ i <= Len(s) THEN SubSeq(s, i, i) ELSE ""

\* s.startswith(p, i-1)
StartsAt(s, i, p) ==
    /\ i >= 1
    /\ i + Len(p) - 1 <= Len(s)
    /\ SubSeq(s, i, i + Len(p) - 1) = p

\* s.startswith(p)
StartsWith(s, p) == StartsAt(s, 1, p)

\* `sub in s`
Contains(sub, s) == \E i \in 1..(Len(s) - Len(sub) + 1) : StartsAt(s, i, sub)

\* s.find(sub) + 1: the first position of sub in s, 0 when absent.
Find(s, sub) ==
    IF Contains(sub, s)
    THEN CHOOSE i \in 1..(Len(s) - Len(sub) + 1) :
            /\ StartsAt(s, i, sub)
            /\ \A j \in 1..(i - 1) : ~StartsAt(s, j, sub)
    ELSE 0

\* s.rfind(sub) + 1: the last position of sub in s, 0 when absent.
RFind(s, sub) ==
    IF Contains(sub, s)
    THEN CHOOSE i \in 1..(Len(s) - Len(sub) + 1) :
            /\ StartsAt(s, i, sub)
            /\ \A j \in (i + 1)..(Len(s) - Len(sub) + 1) : ~StartsAt(s, j, sub)
    ELSE 0

\* s[i-1:]
From(s, i) == IF i > Len(s) THEN "" ELSE SubSeq(s, i, Len(s))

RECURSIVE ReplaceFrom(_, _, _, _)
ReplaceFrom(s, i, old, new) ==
    IF i > Len(s) THEN ""
    ELSE IF StartsAt(s, i, old)
         THEN new \o ReplaceFrom(s, i + Len(old), old, new)
         ELSE CharAt(s, i) \o ReplaceFrom(s, i + 1, old, new)

\* Variant of StrReplace: str.replace(old, new, 1), the first occurrence only.
StrReplaceFirst(s, old, new) ==
    IF Find(s, old) = 0 THEN s
    ELSE SubSeq(s, 1, Find(s, old) - 1) \o new \o From(s, Find(s, old) + Len(old))

\* str.replace(old, new) for a non-empty old: every non-overlapping
\* occurrence, scanning left to right.
StrReplace(s, old, new) == ReplaceFrom(s, 1, old, new)

RECURSIVE LStrip(_, _)
LStrip(s, chars) ==
    IF s # "" /\ CharAt(s, 1) \in chars THEN LStrip(From(s, 2), chars) ELSE s

RECURSIVE RStrip(_, _)
RStrip(s, chars) ==
    IF s # "" /\ CharAt(s, Len(s)) \in chars
    THEN RStrip(SubSeq(s, 1, Len(s) - 1), chars)
    ELSE s

\* s.strip(chars)
Strip(s, chars) == RStrip(LStrip(s, chars), chars)

Whitespace == {" ", "\n", "\t"}
Quotes == {"'", "\""}

AlnumString == "ABCDEFGHIJKLMNOPQRSTUVWXYZabcdefghijklmnopqrstuvwxyz0123456789"
\* The character class [A-Za-z0-9]
Alnum == {SubSeq(AlnumString, i, i) : i \in 1..Len(AlnumString)}

\* The end of the longest run of characters of class cls starting at i
\* (i - 1 when the run is empty): a greedy cls* .
RECURSIVE RunEnd(_, _, _)
RunEnd(s, i, cls) ==
    IF i <= Len(s) /\ CharAt(s, i) \in cls THEN RunEnd(s, i + 1, cls) ELSE i - 1

\* The characters occurring in s.
CharsOf(s) == {SubSeq(s, j, j) : j \in 1..Len(s)}

\* The least element of a non-empty set of positions, 0 for the empty set:
\* where re.search finds its leftmost match.
Leftmost(S) == IF S = {} THEN 0 ELSE CHOOSE i \in S : \A j \in S : i <= j

\* Variant of Truthy: `is not None` in place of truthiness.
NotNone(v) == v # None

\* Python truthiness of an optional string.
Truthy(v) == v # None /\ v # ""

(***************************************************************************)
(* extract_vplink_urls: re.findall of                                      *)
(*   https?://(?:www\.)?vplink\.in/[A-Za-z0-9]+                            *)
(***************************************************************************)

\* The position of the last character of the pattern's match starting at
\* position i of text, 0 when the pattern does not match there.  Each
\* optional group is tried present first and absent second, as the regex
\* engine does; the final class is greedy.
VplinkMatchEnd(text, i) ==
    LET afterHttp == IF StartsAt(text, i, "http") THEN i + 4 ELSE 0
        Tail3(k) ==
            \* vplink\.in/[A-Za-z0-9]+ at k
            IF k > 0 /\ StartsAt(text, k, "vplink.in/")
                     /\ RunEnd(text, k + 10, Alnum) >= k + 10
            THEN RunEnd(text, k + 10, Alnum)
            ELSE 0
        Tail2(k) ==
            \* ://(?:www\.)?... at k
            IF k > 0 /\ StartsAt(text, k, "://")
            THEN IF StartsAt(text, k + 3, "www.") /\ Tail3(k + 7) > 0
                 THEN Tail3(k + 7)
                 ELSE Tail3(k + 3)
            ELSE 0
    IN  IF afterHttp = 0 THEN 0
        ELSE IF StartsAt(text, afterHttp, "s") /\ Tail2(afterHttp + 1) > 0
             THEN Tail2(afterHttp + 1)
             ELSE Tail2(afterHttp)

\* The non-overlapping matches from position i on, left to right, each as
\* <<start, end>>.
RECURSIVE VplinkSpansFrom(_, _)
VplinkSpansFrom(text, i) ==
    IF i > Len(text) THEN <<>>
    ELSE LET e == VplinkMatchEnd(text, i)
         IN  IF e > 0
             THEN <<(<<i, e>>)>> \o VplinkSpansFrom(text, e + 1)
             ELSE VplinkSpansFrom(text, i + 1)

\* Variant of extract_vplink_urls: each link once, as
\* list(dict.fromkeys(re.findall(pattern, text))).
ExtractUnique(text) ==
    IF text = None \/ text = "" THEN <<>>
    ELSE LET spans == VplinkSpansFrom(text, 1)
             all == [k \in 1..Len(spans) |-> SubSeq(text, spans[k][1], spans[k][2])]
             first == {k \in 1..Len(all) : \A j \in 1..(k - 1) : all[j] # all[k]}
         IN  [n \in 1..Cardinality(first) |->
                all[CHOOSE k \in first : Cardinality({j \in first : j < k}) = n - 1]]

extract_vplink_urls(text) ==
    IF text = None \/ text = "" THEN <<>>
    ELSE LET spans == VplinkSpansFrom(text, 1)
         IN  [k \in 1..Len(spans) |-> SubSeq(text, spans[k][1], spans[k][2])]

(***************************************************************************)
(* urllib.parse.urlparse, as far as the resolver uses it (scheme, netloc)  *)
(***************************************************************************)

SchemeChars == Alnum \cup {"+", "-", "."}

\* The position of the colon ending the scheme, 0 when url has no scheme.
SchemeColon(url) ==
    LET c == Find(url, ":")
    IN  IF c > 1 /\ \A j \in 1..(c - 1) : CharAt(url, j) \in SchemeChars
        THEN c ELSE 0

UrlScheme(url) ==
    IF SchemeColon(url) > 0 THEN SubSeq(url, 1, SchemeColon(url) - 1) ELSE ""

\* The netloc: what follows "//" up to the first of "/", "?" and "#".
UrlNetloc(url) ==
    LET rest == From(url, SchemeColon(url) + 1)
    IN  IF StartsWith(rest, "//")
        THEN SubSeq(rest, 3, RunEnd(rest, 3, CharsOf(rest) \ {"/", "?", "#"}))
        ELSE ""

\* f"{parsed.scheme}://{parsed.netloc}{destination}"
MakeAbsolute(url, destination) ==
    UrlScheme(url) \o "://" \o UrlNetloc(url) \o destination

(***************************************************************************)
(* The domain lists of get_destination_url                                 *)
(***************************************************************************)

shortener_domains ==
    <<"vplink.in", "ohcar2022.co.in", "ohcar", "bit.ly", "tinyurl.com",
      "shorturl.at", "clk.sh">>

destination_domains ==
    <<"gofile.io", "mediafire.com", "drive.google.com", "mega.nz", "dropbox.com">>

\* any(domain in url for domain in shortener_domains)
is_shortener(url) ==
    \E k \in 1..Len(shortener_domains) : Contains(shortener_domains[k], url)

\* any(domain in href for domain in destination_domains)
is_destination(href) ==
    \E k \in 1..Len(destination_domains) : Contains(destination_domains[k], href)

max_depth == 10

(***************************************************************************)
(* The API strategy of get_destination_url (one endpoint attempt)          *)
(***************************************************************************)

\* short_url.split('/')[-1]
short_code(short_url) == From(short_url, RFind(short_url, "/") + 1)

api_endpoints(short_url, api_key) ==
    << "https://vplink.in/api?api=" \o api_key \o "&url=" \o short_url,
       "https://vplink.in/api?api=" \o api_key \o "&url=vplink.in/"
            \o short_code(short_url) >>

\* data.get('destination') or data.get('destinationUrl') or data.get('longUrl')
FirstDestinationField(data) ==
    IF Truthy(data.destination) THEN data.destination
    ELSE IF Truthy(data.destinationUrl) THEN data.destinationUrl
    ELSE data.longUrl

\* The bare except of the endpoint attempt: the body taken as plain text.
ApiTextFallback(r) ==
    IF r.text # "" /\ Contains("https://", r.text)
    THEN Strip(r.text, Whitespace)
    ELSE None

\* What one endpoint attempt yields: the destination it returns, or None when
\* the loop goes on to the next endpoint.  A response r is
\*   exc          requests.get raised
\*   status_code  the HTTP status
\*   json         "dict" (a JSON object), "other" (valid JSON that is no
\*                object, on which data.get raises) or "invalid"
\*                (response.json() raises)
\*   data         the JSON object's fields (None for an absent field)
\*   text         response.text
ApiAttempt(r) ==
    IF r.exc THEN None
    ELSE IF r.status_code # 200 THEN None
    ELSE IF r.json = "dict"
         THEN IF r.data.status = "success" /\ Truthy(FirstDestinationField(r.data))
              THEN FirstDestinationField(r.data)
              ELSE None
         ELSE ApiTextFallback(r)

(***************************************************************************)
(* The page heuristics of extract_url.  A page is the parsed response:     *)
(*   skip     the href of the anchor found as skip link (None: no such     *)
(*            anchor, or it has no href)                                   *)
(*   meta     the content of the meta refresh tag (None: no such tag)      *)
(*   anchors  the hrefs of soup.find_all('a', href=True), in order         *)
(*   iframes  the src of each iframe, in order (None: no src)              *)
(*   scripts  the string of each script, in order (None: no string)        *)
(*   text     response.text                                                *)
(* Each heuristic yields its candidate, or None when it finds nothing.     *)
(***************************************************************************)

\* Method 1: the skip link's href, made absolute when it does not start
\* with "http".
SkipLink(url, page) ==
    IF Truthy(page.skip)
    THEN IF ~StartsWith(page.skip, "http")
         THEN MakeAbsolute(url, page.skip)
         ELSE page.skip
    ELSE None

\* re.search(r'url=(.+)', content, re.IGNORECASE): the start of group 1 at
\* the leftmost match, 0 when there is none.
MetaUrlGroupStart(content) ==
    LET hits == {i \in 1..Len(content) :
                    /\ CharAt(content, i) \in {"u", "U"}
                    /\ CharAt(content, i + 1) \in {"r", "R"}
                    /\ CharAt(content, i + 2) \in {"l", "L"}
                    /\ CharAt(content, i + 3) = "="
                    /\ i + 4 <= Len(content)
                    /\ CharAt(content, i + 4) # "\n"}
    IN  IF hits = {} THEN 0 ELSE Leftmost(hits) + 4

\* Method 2: match.group(1).strip('\'"') of the meta refresh content.
MetaRefresh(page) ==
    IF page.meta = None THEN None
    ELSE LET g == MetaUrlGroupStart(page.meta)
         IN  IF g = 0 THEN None
             ELSE Strip(SubSeq(page.meta, g,
                               RunEnd(page.meta, g, CharsOf(page.meta) \ {"\n"})),
                        Quotes)

\* The first entry of a sequence of optional strings that is truthy and
\* names a destination domain, None when there is none.
FirstDestination(hrefs) ==
    LET hits == {k \in 1..Len(hrefs) : Truthy(hrefs[k]) /\ is_destination(hrefs[k])}
    IN  IF hits = {} THEN None ELSE hrefs[Leftmost(hits)]

\* Method 3
DestinationAnchor(page) == FirstDestination(page.anchors)

\* Method 4
DestinationIframe(page) == FirstDestination(page.iframes)

GofilePrefix == "https://gofile.io/d/"

\* The end of https://gofile\.io/d/[A-Za-z0-9]+ matched at i, 0 for no match.
GofileMatchEnd(s, i) ==
    IF StartsAt(s, i, GofilePrefix)
       /\ RunEnd(s, i + Len(GofilePrefix), Alnum) >= i + Len(GofilePrefix)
    THEN RunEnd(s, i + Len(GofilePrefix), Alnum)
    ELSE 0

\* re.search(r'(["\']https://gofile\.io/d/[A-Za-z0-9]+["\'])', s), group 1
\* stripped of quotes; None for no match.
ScriptGofile(s) ==
    LET hits == {i \in 1..Len(s) :
                    /\ CharAt(s, i) \in Quotes
                    /\ GofileMatchEnd(s, i + 1) > 0
                    /\ CharAt(s, GofileMatchEnd(s, i + 1) + 1) \in Quotes}
    IN  IF hits = {} THEN None
        ELSE LET i == Leftmost(hits)
             IN  Strip(SubSeq(s, i, GofileMatchEnd(s, i + 1) + 1), Quotes)

\* ["']([^"']+)["'] matched at k: the end of group 1, 0 for no match.
QuotedArgEnd(s, k) ==
    LET e == RunEnd(s, k + 1, CharsOf(s) \ Quotes)
    IN  IF CharAt(s, k) \in Quotes /\ e >= k + 1 /\ CharAt(s, e + 1) \in Quotes
        THEN e ELSE 0

\* Where the quoted argument of redirect pattern n starts when the pattern's
\* head matches at i, 0 when it does not.
\*   1  (?:window\.location|location\.href)\s*=\s*
\*   2  window\.open\(      3  redirect\(      4  fetch\(
PatternArgStart(n, s, i) ==
    LET AfterEq(k) ==
            LET eq == RunEnd(s, k, Whitespace) + 1
            IN  IF CharAt(s, eq) = "=" THEN RunEnd(s, eq + 1, Whitespace) + 1 ELSE 0
        Lit(lit) == IF StartsAt(s, i, lit) THEN i + Len(lit) ELSE 0
    IN  CASE n = 1 -> IF StartsAt(s, i, "window.location") /\ AfterEq(i + 15) > 0
                      THEN AfterEq(i + 15)
                      ELSE IF StartsAt(s, i, "location.href") THEN AfterEq(i + 13)
                      ELSE 0
          [] n = 2 -> Lit("window.open(")
          [] n = 3 -> Lit("redirect(")
          [] n = 4 -> Lit("fetch(")

\* re.search(patterns[n], s): group 1 of the leftmost match, None for none.
PatternSearch(n, s) ==
    LET Arg(i) == PatternArgStart(n, s, i)
        hits == {i \in 1..Len(s) : Arg(i) > 0 /\ QuotedArgEnd(s, Arg(i)) > 0}
    IN  IF hits = {} THEN None
        ELSE LET a == Arg(Leftmost(hits))
             IN  SubSeq(s, a + 1, QuotedArgEnd(s, a))

Placeholders == {"#", "javascript:void(0)", ""}

\* The pattern loop over one script: the first pattern, from n on, whose
\* match is no placeholder gives the destination; None when none does.
RECURSIVE ScriptPatterns(_, _, _)
ScriptPatterns(url, s, n) ==
    IF n > 4 THEN None
    ELSE LET destination == PatternSearch(n, s)
         IN  IF destination = None \/ destination \in Placeholders
             THEN ScriptPatterns(url, s, n + 1)
             ELSE IF StartsWith(destination, "/")
                  THEN MakeAbsolute(url, destination)
                  ELSE destination

\* Method 5, the loop over the scripts from the k-th on: a literal gofile
\* URL of a script is returned, a redirect pattern of it is followed; found
\* is FALSE when no script yields either.
RECURSIVE ScriptLinks(_, _, _)
ScriptLinks(url, scripts, k) ==
    IF k > Len(scripts) THEN [found |-> FALSE, recurse |-> FALSE, value |-> None]
    ELSE IF ~Truthy(scripts[k]) THEN ScriptLinks(url, scripts, k + 1)
    ELSE IF ScriptGofile(scripts[k]) # None
         THEN [found |-> TRUE, recurse |-> FALSE, value |-> ScriptGofile(scripts[k])]
    ELSE IF ScriptPatterns(url, scripts[k], 1) # None
         THEN [found |-> TRUE, recurse |-> TRUE,
               value |-> ScriptPatterns(url, scripts[k], 1)]
    ELSE ScriptLinks(url, scripts, k + 1)

\* Method 6: re.findall(r'https://gofile\.io/d/[A-Za-z0-9]+', page_text)[0]
BodyGofile(page) ==
    LET hits == {i \in 1..Len(page.text) : GofileMatchEnd(page.text, i) > 0}
    IN  IF hits = {} THEN None
        ELSE SubSeq(page.text, Leftmost(hits),
                    GofileMatchEnd(page.text, Leftmost(hits)))

\* The end of https?:\\\/\\\/[^\s\\"]+ matched at i, 0 for no match.
EscapedMatchEnd(s, i) ==
    LET Rest(k) ==
            IF StartsAt(s, k, ":\\/\\/")
               /\ RunEnd(s, k + 5, CharsOf(s) \ (Whitespace \cup {"\\", "\""})) >= k + 5
            THEN RunEnd(s, k + 5, CharsOf(s) \ (Whitespace \cup {"\\", "\""}))
            ELSE 0
    IN  IF ~StartsAt(s, i, "http") THEN 0
        ELSE IF StartsAt(s, i + 4, "s") /\ Rest(i + 5) > 0 THEN Rest(i + 5)
        ELSE Rest(i + 4)

\* Method 7: the first escaped URL, scanning from i, whose unescaped form
\* names a destination domain; None when there is none.
RECURSIVE EscapedFrom(_, _)
EscapedFrom(s, i) ==
    IF i > Len(s) THEN None
    ELSE LET e == EscapedMatchEnd(s, i)
         IN  IF e = 0 THEN EscapedFrom(s, i + 1)
             ELSE LET unescaped == StrReplace(SubSeq(s, i, e), "\\/", "/")
                  IN  IF is_destination(unescaped) THEN unescaped
                      ELSE EscapedFrom(s, e + 1)

EscapedUrl(page) == EscapedFrom(page.text, 1)

\* Variant of ParsePage: the destination anchor is looked for before the
\* skip link and the meta refresh.
ParsePageAnchorFirst(url, page) ==
    LET skip == SkipLink(url, page)
        meta == MetaRefresh(page)
        anchor == DestinationAnchor(page)
        iframe == DestinationIframe(page)
        script == ScriptLinks(url, page.scripts, 1)
        body == BodyGofile(page)
        escaped == EscapedUrl(page)
    IN  IF anchor # None
        THEN [method |-> "anchor", recurse |-> FALSE, value |-> anchor]
        ELSE IF skip # None
        THEN [method |-> "skip", recurse |-> TRUE, value |-> skip]
        ELSE IF meta # None
        THEN [method |-> "meta", recurse |-> TRUE, value |-> meta]
        ELSE IF iframe # None
        THEN [method |-> "iframe", recurse |-> FALSE, value |-> iframe]
        ELSE IF script.found
        THEN [method |-> "script", recurse |-> script.recurse, value |-> script.value]
        ELSE IF body # None
        THEN [method |-> "body", recurse |-> FALSE, value |-> body]
        ELSE IF escaped # None
        THEN [method |-> "escaped", recurse |-> TRUE, value |-> escaped]
        ELSE [method |-> "none", recurse |-> FALSE, value |-> url]

\* The heuristics in the order extract_url applies them: the method that
\* decides the page, whether its candidate is followed (extract_url called
\* on it at depth + 1) or returned, and the candidate.  With no candidate
\* at all the current url is returned.
ParsePage(url, page) ==
    LET skip == SkipLink(url, page)
        meta == MetaRefresh(page)
        anchor == DestinationAnchor(page)
        iframe == DestinationIframe(page)
        script == ScriptLinks(url, page.scripts, 1)
        body == BodyGofile(page)
        escaped == EscapedUrl(page)
    IN  IF skip # None
        THEN [method |-> "skip", recurse |-> TRUE, value |-> skip]
        ELSE IF meta # None
        THEN [method |-> "meta", recurse |-> TRUE, value |-> meta]
        ELSE IF anchor # None
        THEN [method |-> "anchor", recurse |-> FALSE, value |-> anchor]
        ELSE IF iframe # None
        THEN [method |-> "iframe", recurse |-> FALSE, value |-> iframe]
        ELSE IF script.found
        THEN [method |-> "script", recurse |-> script.recurse, value |-> script.value]
        ELSE IF body # None
        THEN [method |-> "body", recurse |-> FALSE, value |-> body]
        ELSE IF escaped # None
        THEN [method |-> "escaped", recurse |-> TRUE, value |-> escaped]
        ELSE [method |-> "none", recurse |-> FALSE, value |-> url]

\* Variant of FetchStep: no except clause in extract_url, the exception
\* reaches get_destination_url's own, which returns None.
FetchStepRaises(url, resp) ==
    IF resp.exc
    THEN [method |-> "error", recurse |-> FALSE, value |-> None]
    ELSE IF resp.url # url /\ ~is_shortener(resp.url)
    THEN [method |-> "redirect", recurse |-> FALSE, value |-> resp.url]
    ELSE ParsePage(url, resp.page)

\* The try block of extract_url on the response resp of requests.get(url):
\*   exc   the request (or the parse) raised
\*   url   response.url, where the redirects landed
\*   page  the parsed body
FetchStep(url, resp) ==
    IF resp.exc
    THEN [method |-> "error", recurse |-> FALSE, value |-> url]
    ELSE IF resp.url # url /\ ~is_shortener(resp.url)
    THEN [method |-> "redirect", recurse |-> FALSE, value |-> resp.url]
    ELSE ParsePage(url, resp.page)

\* Variant of AtCeiling: the comparison off by one.
AtCeilingOffByOne(d) == d > max_depth

\* extract_url's guard on entry: the depth ceiling.
AtCeiling(d) == d >= max_depth

\* Variant of NextDepth: the depth handed on unchanged.
SameDepth(d) == d

\* The depth a followed candidate is resolved at.
NextDepth(d) == d + 1

(***************************************************************************)
(* create_short_url                                                        *)
(***************************************************************************)

\* Variant of CreateShortUrlBody: the status field is not looked at.
CreateShortUrlBodyAnyStatus(r) ==
    IF r.exc THEN Raised
    ELSE IF r.status_code = 200
         THEN IF r.json # "dict" THEN Raised ELSE r.data.shortenedUrl
         ELSE None

\* The body of create_short_url's try block on the response r of
\* requests.get (fields as for ApiAttempt; data.shortenedUrl is None when
\* the field is absent): the value returned, or Raised.
CreateShortUrlBody(r) ==
    IF r.exc THEN Raised
    ELSE IF r.status_code = 200
         THEN IF r.json # "dict" THEN Raised
              ELSE IF r.data.status = "success" THEN r.data.shortenedUrl
              ELSE None
         ELSE None

\* create_short_url: its except clause turns every exception into None.
create_short_url(r) ==
    IF CreateShortUrlBody(r) = Raised THEN None ELSE CreateShortUrlBody(r)

\* new_short_url.replace('https://', '').replace('http://', '')
FormatUrl(new_short_url) ==
    StrReplace(StrReplace(new_short_url, "https://", ""), "http://", "")

(***************************************************************************)
(* Inputs: the messages, and the responses the network may give            *)
(***************************************************************************)

SOURCE_CHANNEL_ID == -1001
TARGET_CHANNEL_ID == -1002

\* The most segments a message text is made of.
MaxSegs == 2

\* What message texts are made of: a short link, a short link the first is
\* a proper prefix of, and a word.
Segments == <<"https://vplink.in/Ab ", "https://vplink.in/Ab1 ", "x">>

RECURSIVE Concat(_)
Concat(segs) == IF segs = <<>> THEN "" ELSE Head(segs) \o Concat(Tail(segs))

Texts ==
    {Concat([k \in 1..Len(f) |-> Segments[f[k]]]) :
        f \in UNION {[1..n -> 1..Len(Segments)] : n \in 0..MaxSegs}}

Captions == {"new: http://www.vplink.in/Q7"}

\* The posts delivered: a text post, or a media post with a caption.
Messages ==
    {[chat_id |-> c, text |-> t, caption |-> None] :
        c \in {SOURCE_CHANNEL_ID, TARGET_CHANNEL_ID}, t \in Texts}
    \cup
    {[chat_id |-> c, text |-> None, caption |-> t] :
        c \in {SOURCE_CHANNEL_ID, TARGET_CHANNEL_ID}, t \in Captions}

\* The short links resolved when the resolver is run on its own.
ShortUrls == {"https://vplink.in/Ab", "https://vplink.in/Ab1"}

NoData == [status |-> None, destination |-> None, destinationUrl |-> None,
           longUrl |-> None, shortenedUrl |-> None]

Resp(code, json, data, text) ==
    [exc |-> FALSE, status_code |-> code, json |-> json, data |-> data, text |-> text]

ExcResp == [exc |-> TRUE, status_code |-> 0, json |-> "invalid", data |-> NoData, text |-> ""]

\* No request made yet.
NoResp == [exc |-> FALSE, status_code |-> 0, json |-> "invalid", data |-> NoData, text |-> ""]

GofileUrl == "https://gofile.io/d/abc123"

\* Answers of the lookup endpoint.
ApiResponses ==
    { ExcResp,
      Resp(500, "invalid", NoData, "Internal Server Error"),
      Resp(200, "dict", [NoData EXCEPT !.status = "success", !.destination = GofileUrl], ""),
      Resp(200, "dict", [NoData EXCEPT !.status = "success", !.destination = "",
                                       !.longUrl = "https://mega.nz/file/x1"], ""),
      Resp(200, "dict", [NoData EXCEPT !.status = "success",
                                       !.shortenedUrl = "https://vplink.in/Zz9"], ""),
      Resp(200, "dict", [NoData EXCEPT !.status = "error", !.destination = GofileUrl], ""),
      Resp(200, "invalid", NoData, "https://gofile.io/d/abc123\n"),
      Resp(200, "invalid", NoData, "Not found"),
      Resp(200, "invalid", NoData, "<a href=\"https://vplink.in/login\">Login</a>"),
      Resp(200, "other", NoData, "[\"https://gofile.io/d/abc123\"]") }

\* Answers of the creation endpoint.
ShortenResponses ==
    { ExcResp,
      Resp(500, "invalid", NoData, "Internal Server Error"),
      Resp(200, "invalid", NoData, "<html>Too many requests</html>"),
      Resp(200, "other", NoData, "[]"),
      Resp(200, "dict", [NoData EXCEPT !.status = "success",
                                       !.shortenedUrl = "https://vplink.in/N1"], ""),
      Resp(200, "dict", [NoData EXCEPT !.status = "success",
                                       !.shortenedUrl = "http://vplink.in/N2"], ""),
      Resp(200, "dict", [NoData EXCEPT !.status = "success"], ""),
      Resp(200, "dict", [NoData EXCEPT !.status = "error"], ""),
      Resp(200, "dict", [NoData EXCEPT !.status = "error",
                                       !.shortenedUrl = "https://vplink.in/N1"], ""),
      Resp(500, "dict", [NoData EXCEPT !.status = "success",
                                       !.shortenedUrl = "https://vplink.in/N1"], "") }

NoPage == [skip |-> None, meta |-> None, anchors |-> <<>>, iframes |-> <<>>,
           scripts |-> <<>>, text |-> ""]

\* The pages a shortener may serve.
Pages ==
    { \* a relative skip link (to a page that may link to itself)
      [NoPage EXCEPT !.skip = "/go", !.anchors = <<"/go">>],
      \* a skip link and a direct destination anchor
      [NoPage EXCEPT !.skip = "https://vplink.in/go",
                     !.anchors = <<"https://vplink.in/go", GofileUrl>>],
      \* a skip control without href beside a destination anchor
      [NoPage EXCEPT !.skip = "", !.anchors = <<"", "https://mega.nz/file/x1">>],
      \* meta refresh to the destination
      [NoPage EXCEPT !.meta = "0;url=https://gofile.io/d/abc123"],
      \* meta refresh to a destination whose query names the shortener
      [NoPage EXCEPT !.meta = "0; URL='https://gofile.io/d/abc123?ref=vplink.in'"],
      \* meta refresh with an empty quoted target
      [NoPage EXCEPT !.meta = "0;url=''"],
      \* a meta refresh that names no url, and an iframe
      [NoPage EXCEPT !.meta = "30", !.iframes = <<None, "https://drive.google.com/file/d/1">>],
      \* an anchor whose query, not its host, names a destination domain
      [NoPage EXCEPT !.anchors = <<"/about", "https://example.com/?u=gofile.io">>],
      \* a script holding the destination literally
      [NoPage EXCEPT !.scripts = <<None, "var u = \"https://gofile.io/d/abc123\";">>],
      \* a script redirecting to a relative path
      [NoPage EXCEPT !.scripts = <<"window.open('#'); window.location.href = '/go';">>],
      \* a script opening another page, then a script holding the destination
      [NoPage EXCEPT !.scripts = <<"window.open('https://vplink.in/go')",
                                   "var u='https://gofile.io/d/abc123'">>],
      \* the destination only in the body text
      [NoPage EXCEPT !.text = "<p>Get it: https://gofile.io/d/abc123</p>"],
      \* the destination only as an escaped literal
      [NoPage EXCEPT !.text = "{\"u\":\"https:\\/\\/gofile.io\\/d\\/abc123\"}"],
      \* nothing to find
      [NoPage EXCEPT !.text = "<html><body>Please wait</body></html>"] }

\* What requests.get(url) may give when it does not raise: any page at url
\* itself, a redirect to the destination, or a redirect to another shortener
\* page.
FetchResponses(url) ==
    {[exc |-> FALSE, url |-> url, page |-> p] : p \in Pages}
    \cup {[exc |-> FALSE, url |-> GofileUrl, page |-> NoPage]}
    \cup {[exc |-> FALSE, url |-> "https://vplink.in/go", page |-> p] :
            p \in {q \in Pages : q.meta = "0;url=https://gofile.io/d/abc123"
                                 \/ q.text = "<html><body>Please wait</body></html>"}}

\* message.text or message.caption or ""
MessageText(m) ==
    IF Truthy(m.text) THEN m.text
    ELSE IF Truthy(m.caption) THEN m.caption
    ELSE ""

VPLINK_API1_KEY == "key1"

(***************************************************************************)
(* State                                                                   *)
(***************************************************************************)

VARIABLES
    pc,              \* where the handler is
    message,         \* the post delivered: chat_id, text, caption
    text,            \* handle_channel_message: text
    vplink_urls,     \* handle_channel_message: vplink_urls
    idx,             \* the for loop's position in vplink_urls (1-based)
    short_url,       \* the loop variable
    new_text,        \* handle_channel_message: new_text
    destination_url, \* what get_destination_url returned
    new_short_url,   \* what create_short_url returned
    shorten_resp,    \* the creation endpoint's answer to the last call
    shorten_arg,     \* create_short_url: destination_url, its first argument
    plan,            \* per candidate processed: its replacement, or why none
    attempted,       \* the candidates handed to get_destination_url, in order
    posts,           \* the calls of send_message
    posted,          \* the text handed to send_message
    ep,              \* get_destination_url: position in api_endpoints
    dest,            \* get_destination_url: dest
    url,             \* extract_url: url
    depth,           \* extract_url: depth
    page,            \* extract_url: the page last parsed
    method,          \* extract_url: what decided the last fetched page
    via,             \* how the resolution ended
    nApi,            \* lookup requests made for the current link
    nFetch,          \* page requests made for the current link
    fetched,         \* extract_url: the URL last requested with requests.get
    api_resp         \* the endpoint loop: response, the answer to its last request

handlerVars == <<message, text, vplink_urls, idx, short_url, new_text,
                 new_short_url, shorten_resp, shorten_arg, plan, attempted, posts,
                 posted>>
resolverVars == <<destination_url, ep, dest, url, depth, page, method, via, nApi,
                  nFetch, fetched, api_resp>>
vars == <<pc, handlerVars, resolverVars>>

\* The resolver's variables before get_destination_url is called.
ResolverIdle ==
    /\ destination_url = None
    /\ ep = 1
    /\ dest = None
    /\ url = None
    /\ depth = 0
    /\ page = NoPage
    /\ method = "none"
    /\ via = "none"
    /\ nApi = 0
    /\ nFetch = 0
    /\ fetched = None
    /\ api_resp = NoResp

Init ==
    /\ pc = "recv"
    /\ message \in Messages
    /\ text = None
    /\ vplink_urls = <<>>
    /\ idx = 1
    /\ short_url = None
    /\ new_text = None
    /\ new_short_url = None
    /\ shorten_resp = NoResp
    /\ shorten_arg = None
    /\ plan = <<>>
    /\ attempted = <<>>
    /\ posts = 0
    /\ posted = None
    /\ ResolverIdle

(***************************************************************************)
(* handle_channel_message                                                  *)
(***************************************************************************)

\* Variant of Receive: the channel check left out.
ReceiveAnyChannel ==
    /\ pc = "recv"
    /\ text' = MessageText(message)
    /\ vplink_urls' = extract_vplink_urls(text')
    /\ IF vplink_urls' = <<>>
       THEN pc' = "returned" /\ UNCHANGED new_text
       ELSE pc' = "loop" /\ new_text' = text'
    /\ UNCHANGED <<message, idx, short_url, new_short_url, shorten_resp, shorten_arg,
                   plan, attempted, posts, posted, resolverVars>>

\* The handler up to its loop: the channel check and the extraction.
Receive ==
    /\ pc = "recv"
    /\ IF message.chat_id # SOURCE_CHANNEL_ID
       THEN /\ pc' = "returned"
            /\ UNCHANGED <<text, vplink_urls, new_text>>
       ELSE /\ text' = MessageText(message)
            /\ vplink_urls' = extract_vplink_urls(text')
            /\ IF vplink_urls' = <<>>
               THEN pc' = "returned" /\ UNCHANGED new_text
               ELSE pc' = "loop" /\ new_text' = text'
    /\ UNCHANGED <<message, idx, short_url, new_short_url, shorten_resp, shorten_arg, plan,
                   attempted, posts, posted, resolverVars>>

\* The head of the for loop: the next candidate is handed to
\* get_destination_url, or the loop ends.
LoopNext ==
    /\ pc = "loop"
    /\ IF idx <= Len(vplink_urls)
       THEN /\ short_url' = vplink_urls[idx]
            /\ attempted' = Append(attempted, vplink_urls[idx])
            /\ pc' = "api"
       ELSE /\ pc' = "post"
            /\ UNCHANGED <<short_url, attempted>>
    /\ UNCHANGED <<message, text, vplink_urls, idx, new_text, new_short_url,
                   shorten_resp, shorten_arg, plan, posts, posted, resolverVars>>

\* Variant of ApiReturns: the destination is logged and the loop goes on.
ApiReturnsNever(d) == FALSE

\* `if dest: return dest` / `return dest` of an endpoint attempt.
ApiReturns(d) == d # None

\* get_destination_url returns value.
Return(value, how) ==
    /\ destination_url' = value
    /\ via' = how
    /\ pc' = "resolved"

\* One turn of the loop over api_endpoints: a request and what is made of
\* its answer.  After the last endpoint extract_url(short_url) is called.
ApiCall ==
    /\ pc = "api"
    /\ \E r \in ApiResponses : \E d \in {ApiAttempt(r)} :
         /\ dest' = d
         /\ nApi' = nApi + 1
         /\ IF ApiReturns(d)
            THEN /\ Return(d, "api")
                 /\ api_resp' = r
                 /\ UNCHANGED <<ep, url, depth>>
            ELSE IF ep < Len(api_endpoints(short_url, VPLINK_API1_KEY))
            THEN /\ ep' = ep + 1
                 /\ api_resp' = r
                 /\ UNCHANGED <<pc, destination_url, via, url, depth>>
            ELSE /\ pc' = "enter"
                 /\ url' = short_url
                 /\ depth' = 0
                 /\ api_resp' = NoResp
                 /\ UNCHANGED <<ep, destination_url, via>>
    /\ UNCHANGED <<handlerVars, page, method, nFetch, fetched>>

\* extract_url is entered: the depth ceiling and the shortener check.
Enter ==
    /\ pc = "enter"
    /\ IF AtCeiling(depth) THEN Return(url, "max_depth")
       ELSE IF ~is_shortener(url) THEN Return(url, "final")
       ELSE pc' = "fetch" /\ UNCHANGED <<destination_url, via>>
    /\ UNCHANGED <<handlerVars, ep, dest, url, depth, page, method, nApi, nFetch,
                   fetched, api_resp>>

\* One more page request; the count is kept up to max_depth + 1, one more
\* than extract_url can make.
CountFetch(n) == IF n <= max_depth THEN n + 1 ELSE n

\* extract_url goes on from a fetched page as step says.
FetchDone(p, step) ==
    /\ nFetch' = CountFetch(nFetch)
    /\ fetched' = url
    /\ page' = p
    /\ method' = step.method
    /\ IF step.recurse
       THEN /\ url' = step.value
            /\ depth' = NextDepth(depth)
            /\ pc' = "enter"
            /\ UNCHANGED <<destination_url, via>>
       ELSE /\ Return(step.value, step.method)
            /\ UNCHANGED <<url, depth>>

\* The try block of extract_url: the request (which timeout=20 ends, by an
\* exception if by nothing else), and the page's heuristics.
Fetch ==
    /\ pc = "fetch"
    /\ \/ FetchDone(NoPage, FetchStep(url, [exc |-> TRUE, url |-> url, page |-> NoPage]))
       \/ \E resp \in FetchResponses(url) :
            \E step \in {FetchStep(url, resp)} : FetchDone(resp.page, step)
    /\ UNCHANGED <<handlerVars, ep, dest, nApi, api_resp>>

\* The frames of get_destination_url and extract_url are gone once the
\* handler goes on.
FrameReset ==
    /\ ep' = 1
    /\ dest' = None
    /\ url' = None
    /\ depth' = 0
    /\ page' = NoPage
    /\ method' = "none"
    /\ via' = "none"
    /\ nApi' = 0
    /\ nFetch' = 0
    /\ fetched' = None
    /\ api_resp' = NoResp

ResolverReset == FrameReset /\ destination_url' = None

\* The loop goes on to the next candidate.
NextIndex(i) == i + 1

\* Variant of Continue: `break`, the loop is left.
Break(i) == Len(vplink_urls) + 1

\* `continue` after a failure: the next candidate, as after a success.
Continue(i) == NextIndex(i)

\* get_destination_url has returned into the handler: without a
\* destination the candidate is skipped.
GotDestination ==
    /\ pc = "resolved"
    /\ IF ~Truthy(destination_url)
       THEN /\ plan' = Append(plan, "<unresolved>")
            /\ idx' = Continue(idx)
            /\ pc' = "loop"
            /\ ResolverReset
       ELSE /\ pc' = "shorten"
            /\ FrameReset
            /\ UNCHANGED <<plan, idx, destination_url>>
    /\ UNCHANGED <<message, text, vplink_urls, short_url, new_text, new_short_url,
                   shorten_resp, shorten_arg, attempted, posts, posted>>

\* create_short_url(destination_url, VPLINK_API2_KEY): one request.
CallShorten ==
    /\ pc = "shorten"
    /\ \E r \in ShortenResponses :
         /\ shorten_resp' = r
         /\ shorten_arg' = destination_url
         /\ new_short_url' = create_short_url(r)
    /\ pc' = "shortened"
    /\ UNCHANGED <<message, text, vplink_urls, idx, short_url, new_text, plan,
                   attempted, posts, posted, resolverVars>>

\* create_short_url has returned: without a new link the candidate is
\* skipped, with one it is substituted in new_text.
Rewrite ==
    /\ pc = "shortened"
    /\ IF ~Truthy(new_short_url)
       THEN /\ plan' = Append(plan, "<unshortened>")
            /\ idx' = Continue(idx)
            /\ UNCHANGED new_text
       ELSE /\ plan' = Append(plan, FormatUrl(new_short_url))
            /\ idx' = NextIndex(idx)
            /\ new_text' = StrReplace(new_text, short_url, FormatUrl(new_short_url))
    /\ pc' = "loop"
    /\ new_short_url' = None
    /\ shorten_resp' = NoResp
    /\ shorten_arg' = None
    /\ ResolverReset
    /\ UNCHANGED <<message, text, vplink_urls, short_url, attempted, posts, posted>>

\* send_message; an exception of it is logged and changes nothing else.
Post ==
    /\ pc = "post"
    /\ posts' = posts + 1
    /\ posted' = new_text
    /\ pc' = "done"
    /\ UNCHANGED <<message, text, vplink_urls, idx, short_url, new_text,
                   new_short_url, shorten_resp, shorten_arg, plan, attempted, resolverVars>>

Next == Receive \/ LoopNext \/ ApiCall \/ Enter \/ Fetch \/ GotDestination
        \/ CallShorten \/ Rewrite \/ Post

Spec == Init /\ [][Next]_vars

(***************************************************************************)
(* get_destination_url on its own: each short link, every answer           *)
(***************************************************************************)

InitResolve ==
    /\ pc = "api"
    /\ short_url \in ShortUrls
    /\ message = [chat_id |-> SOURCE_CHANNEL_ID, text |-> short_url, caption |-> None]
    /\ text = short_url
    /\ vplink_urls = <<short_url>>
    /\ idx = 1
    /\ new_text = short_url
    /\ new_short_url = None
    /\ shorten_resp = NoResp
    /\ shorten_arg = None
    /\ plan = <<>>
    /\ attempted = <<short_url>>
    /\ posts = 0
    /\ posted = None
    /\ ResolverIdle

NextResolve == ApiCall \/ Enter \/ Fetch

SpecResolve == InitResolve /\ [][NextResolve]_vars

\* A call that is made runs on: no step of the resolver waits for anything
\* but the answer of a request, and every request carries a timeout.
FairResolve == SpecResolve /\ WF_vars(NextResolve)

(***************************************************************************)
(* extract_vplink_urls on its own: each text                               *)
(***************************************************************************)

\* What the texts handed to the extractor are made of: two short links, a
\* separator, a link without a code, and a word.
ExtractSegments ==
    <<"https://vplink.in/Ab12", "http://www.vplink.in/Q7", " ",
      "https://vplink.in/", "x">>

\* The texts handed to the extractor: None, and up to MaxSegs + 1 segments.
ExtractTexts ==
    {None} \cup
    {Concat([k \in 1..Len(f) |-> ExtractSegments[f[k]]]) :
        f \in UNION {[1..n -> 1..Len(ExtractSegments)] : n \in 0..(MaxSegs + 1)}}

InitExtract ==
    /\ pc = "extract"
    /\ text \in ExtractTexts
    /\ message = [chat_id |-> SOURCE_CHANNEL_ID, text |-> text, caption |-> None]
    /\ vplink_urls = <<>>
    /\ idx = 1
    /\ short_url = None
    /\ new_text = None
    /\ new_short_url = None
    /\ shorten_resp = NoResp
    /\ shorten_arg = None
    /\ plan = <<>>
    /\ attempted = <<>>
    /\ posts = 0
    /\ posted = None
    /\ ResolverIdle

\* The call extract_vplink_urls(text).
Extract ==
    /\ pc = "extract"
    /\ vplink_urls' = extract_vplink_urls(text)
    /\ pc' = "extracted"
    /\ UNCHANGED <<message, text, idx, short_url, new_text, new_short_url,
                   shorten_resp, shorten_arg, plan, attempted, posts, posted, resolverVars>>

SpecExtract == InitExtract /\ [][Extract]_vars

(***************************************************************************)
(* Properties of the resolver                                              *)
(***************************************************************************)

\* C1: a fallback resolution (extract_url entered at depth 0) always ends,
\* and ends with a value: whatever the answers are, also when every hop
\* leads to another shortener URL, get_destination_url returns.
C1_FallbackTerminates ==
    (pc = "enter" /\ depth = 0)
        ~> (pc = "resolved" /\ destination_url \notin {None, Raised})

\* Every one of the max_depth hops led to a shortener URL, the last ones
\* from a page back to itself, and the resolution returned that URL.
C1_CycleEnds ==
    /\ pc = "resolved"
    /\ nFetch = max_depth
    /\ page.skip = "/go"
    /\ destination_url = "https://vplink.in/go"
    /\ is_shortener(destination_url)

\* C2: once an endpoint attempt yields a destination it is what
\* get_destination_url returns, and the requests made for the link are the
\* lookups up to that endpoint: no later endpoint, no page fetch.
C2_ApiFirst ==
    dest # None =>
        /\ pc = "resolved"
        /\ via = "api"
        /\ destination_url = dest
        /\ nFetch = 0
        /\ nApi = ep

\* The first endpoint yielded: one request in all.
C2_FirstEndpointYields ==
    /\ pc = "resolved"
    /\ via = "api"
    /\ ep = 1
    /\ nApi = 1
    /\ nFetch = 0
    /\ destination_url = GofileUrl

\* The host of a URL names a configured shortener domain.
HostIsShortener(u) ==
    \E k \in 1..Len(shortener_domains) : Contains(shortener_domains[k], UrlNetloc(u))

\* C6: the resolver takes a URL for a shortener (and fetches it) exactly
\* when its host names a shortener domain; what it returns as a final
\* destination or as the landing of a redirect has no such host.
C6_ClassifiedByHost ==
    /\ pc = "fetch" => HostIsShortener(url)
    /\ (pc = "resolved" /\ via \in {"final", "redirect"})
            => ~HostIsShortener(destination_url)

\* C7: the depth of extract_url stays within 0..max_depth, and a call at
\* max_depth returns its url: a value, no error.
C7_DepthBounded ==
    /\ depth \in 0..max_depth
    /\ depth = max_depth =>
          \/ pc = "enter"
          \/ /\ pc = "resolved"
             /\ via = "max_depth"
             /\ destination_url = url
             /\ destination_url \notin {None, Raised}

\* The ceiling was reached and the call there returned.
C7_CeilingReached ==
    /\ pc = "resolved"
    /\ depth = max_depth
    /\ via = "max_depth"
    /\ destination_url = url

\* The order the heuristics are claimed to be applied in.
ClaimedOrder == <<"skip", "meta", "anchor", "iframe", "script", "body", "escaped">>

\* Whether heuristic h finds a candidate on a page (which does not depend
\* on the URL the page was fetched from).
Yields(h, p) ==
    CASE h = "skip" -> SkipLink("", p) # None
      [] h = "meta" -> MetaRefresh(p) # None
      [] h = "anchor" -> DestinationAnchor(p) # None
      [] h = "iframe" -> DestinationIframe(p) # None
      [] h = "script" -> ScriptLinks("", p.scripts, 1).found
      [] h = "body" -> BodyGofile(p) # None
      [] h = "escaped" -> EscapedUrl(p) # None

\* The first heuristic of the claimed order that finds a candidate.
FirstYielding(p) ==
    LET hits == {k \in 1..Len(ClaimedOrder) : Yields(ClaimedOrder[k], p)}
    IN  IF hits = {} THEN "none" ELSE ClaimedOrder[Leftmost(hits)]

\* C8: a parsed page is decided by the first heuristic, in the claimed
\* order, that finds a candidate; on a page with a skip link and a
\* destination anchor the skip link's target is followed at the next depth
\* and the anchor is not returned.
C8_Priority ==
    method \notin {"error", "redirect"} =>
        /\ method = FirstYielding(page)
        /\ (Truthy(page.skip) /\ DestinationAnchor(page) # None) =>
              /\ method = "skip"
              /\ via # "anchor"
              /\ depth = nFetch
              /\ StartsWith(page.skip, "http") => url = page.skip

\* The page with both was parsed, and its skip link is being followed.
C8_SkipFollowed ==
    /\ pc = "enter"
    /\ method = "skip"
    /\ DestinationAnchor(page) = GofileUrl
    /\ url = "https://vplink.in/go"
    /\ depth = 1

(***************************************************************************)
(* Properties of the handler                                               *)
(***************************************************************************)

\* A plan entry of a candidate that got no replacement.
Failed(entry) == entry \in {"<unresolved>", "<unshortened>"}

\* The plan positions of the candidate link key that got a replacement.
Successes(key) ==
    {k \in 1..Len(plan) : vplink_urls[k] = key /\ ~Failed(plan[k])}

\* What the occurrences of key are to become: the replacement of its first
\* successful entry, key itself when it has none.
KeyReplacement(key) ==
    IF Successes(key) = {} THEN key ELSE plan[Leftmost(Successes(key))]

\* t from position i on, with the matches spans[k], spans[k+1], ... replaced
\* by repl[k], repl[k+1], ... and every other character kept.
RECURSIVE RewriteSpans(_, _, _, _, _)
RewriteSpans(t, i, spans, k, repl) ==
    IF k > Len(spans) THEN From(t, i)
    ELSE SubSeq(t, i, spans[k][1] - 1) \o repl[k]
            \o RewriteSpans(t, spans[k][2] + 1, spans, k + 1, repl)

\* The text with each candidate's match replaced by its key's replacement.
ExpectedRewrite ==
    RewriteSpans(text, 1, VplinkSpansFrom(text, 1), 1,
                 [k \in 1..Len(vplink_urls) |-> KeyReplacement(vplink_urls[k])])

\* How many entries of seq equal key.
Count(seq, key) == Cardinality({k \in 1..Len(seq) : seq[k] = key})

\* Some candidate of the message is a proper prefix of another.
PrefixPair ==
    \E i, j \in 1..Len(vplink_urls) :
        /\ vplink_urls[i] # vplink_urls[j]
        /\ StartsWith(vplink_urls[j], vplink_urls[i])

\* C3: whatever the per-link outcomes, the candidates are handed to the
\* resolver in text order, none skipped; the message is sent at most once,
\* and only after every candidate of the text was attempted and processed;
\* the handler ends without a post only for a post of another channel or
\* one without candidates.
C3_AllAttemptedPostedOnce ==
    /\ posts <= 1
    /\ \E n \in 0..Len(vplink_urls) : attempted = SubSeq(vplink_urls, 1, n)
    /\ Len(plan) <= Len(attempted)
    /\ Len(attempted) <= Len(plan) + 1
    /\ posts = 1 =>
          /\ pc = "done"
          /\ attempted = vplink_urls
          /\ Len(plan) = Len(vplink_urls)
          /\ posted = new_text
    /\ pc = "done" =>
          /\ posts = 1
          /\ vplink_urls = extract_vplink_urls(MessageText(message))
    /\ pc = "returned" =>
          \/ message.chat_id # SOURCE_CHANNEL_ID
          \/ extract_vplink_urls(MessageText(message)) = <<>>

\* A message of two candidates was posted although the first could not be
\* re-shortened and the second could not be resolved.
C3_PostedAfterFailures ==
    /\ pc = "done"
    /\ posts = 1
    /\ plan = <<"<unshortened>", "<unresolved>">>
    /\ attempted = vplink_urls

\* C4: a candidate link that got no replacement (none of its entries did)
\* occurs in the posted text as often as in the original text.
C4_FailedLinkUnchanged ==
    pc = "done" =>
        \A k \in 1..Len(vplink_urls) :
            Successes(vplink_urls[k]) = {} =>
                Count(extract_vplink_urls(posted), vplink_urls[k])
                    = Count(vplink_urls, vplink_urls[k])

\* C5: when a candidate link occurs twice and got a replacement, no
\* occurrence of it remains in the posted text, so that rewriting the posted
\* text again (with any replacement obtained for it) changes nothing; and,
\* unless another candidate is a prefix of it or it of another, the posted
\* text is the original with both occurrences replaced by the replacement
\* first obtained, whatever the duplicate entry's own new link was.
C5_DuplicatesIdempotent ==
    pc = "done" =>
        \A i, j \in 1..Len(vplink_urls) :
            (i < j /\ vplink_urls[i] = vplink_urls[j]
                   /\ Successes(vplink_urls[i]) # {}) =>
                /\ ~Contains(vplink_urls[i], posted)
                /\ \A k \in Successes(vplink_urls[i]) :
                      StrReplace(posted, vplink_urls[i], plan[k]) = posted
                /\ ~PrefixPair => posted = ExpectedRewrite

\* The same link twice, re-shortened to two different new links: both
\* occurrences carry the first.
C5_DuplicateRewritten ==
    /\ pc = "done"
    /\ vplink_urls = <<"https://vplink.in/Ab", "https://vplink.in/Ab">>
    /\ plan = <<"vplink.in/N1", "vplink.in/N2">>
    /\ posted = "vplink.in/N1 vplink.in/N1 "

\* C9: when every candidate was resolved and re-shortened, the posted text
\* is the original text with each candidate's match replaced by the new
\* short link of that candidate, scheme removed, and all else unchanged.
C9_PostedTextRewritten ==
    (pc = "done" /\ \A k \in 1..Len(plan) : ~Failed(plan[k])) =>
        posted = ExpectedRewrite

\* C10: create_short_url returns a link exactly for an answer with status
\* code 200, a JSON object, status "success" and a shortenedUrl field, and
\* then that field; for every other answer it returns None, and no
\* exception leaves it.
C10_LinkIffSuccess ==
    pc = "shortened" =>
        LET ok == /\ ~shorten_resp.exc
                  /\ shorten_resp.status_code = 200
                  /\ shorten_resp.json = "dict"
                  /\ shorten_resp.data.status = "success"
                  /\ shorten_resp.data.shortenedUrl # None
        IN  /\ new_short_url # Raised
            /\ new_short_url # None <=> ok
            /\ ok => new_short_url = shorten_resp.data.shortenedUrl

\* The creation endpoint answered with a success and its link came back.
C10_LinkReturned ==
    /\ pc = "shortened"
    /\ shorten_resp.status_code = 200
    /\ shorten_resp.data.status = "success"
    /\ new_short_url = "https://vplink.in/N1"

(***************************************************************************)
(* Properties of the extractor                                             *)
(***************************************************************************)

\* The positions of t at which the shortener pattern matches.
MatchStarts(t) == {i \in 1..Len(t) : VplinkMatchEnd(t, i) > 0}

\* The n-th smallest element of a set of positions.
Nth(S, n) == CHOOSE x \in S : Cardinality({y \in S : y < x}) = n - 1

\* The match of the pattern at position i of t.
MatchAt(t, i) == SubSeq(t, i, VplinkMatchEnd(t, i))

\* C11: the extractor returns nothing for a missing or empty text and for a
\* text the pattern matches nowhere; otherwise its entries are, in text
\* order, the matches that do not overlap one another, a match being left
\* out only when it begins inside an earlier one; equal matches give equal
\* entries, all kept.
C11_OneEntryPerMatch ==
    pc = "extracted" =>
        IF text \in {None, ""} THEN vplink_urls = <<>>
        ELSE \E P \in SUBSET MatchStarts(text) :
                /\ \A i, j \in P : i < j => VplinkMatchEnd(text, i) < j
                /\ \A i \in MatchStarts(text) \ P :
                      \E j \in P : j < i /\ i <= VplinkMatchEnd(text, j)
                /\ Len(vplink_urls) = Cardinality(P)
                /\ \A k \in 1..Len(vplink_urls) :
                      vplink_urls[k] = MatchAt(text, Nth(P, k))

\* The same link twice, a blank between: two equal entries.
C11_DuplicatesKept ==
    /\ pc = "extracted"
    /\ text = "https://vplink.in/Ab12 https://vplink.in/Ab12"
    /\ vplink_urls = <<"https://vplink.in/Ab12", "https://vplink.in/Ab12">>

\* C11 as stated: one entry for every position at which the pattern matches,
\* in text order.
C11_OneEntryPerOccurrence ==
    pc = "extracted" =>
        IF text \in {None, ""} THEN vplink_urls = <<>>
        ELSE /\ Len(vplink_urls) = Cardinality(MatchStarts(text))
             /\ \A k \in 1..Len(vplink_urls) :
                   vplink_urls[k] = MatchAt(text, Nth(MatchStarts(text), k))

(***************************************************************************)
(* Properties of the resolver at the depth ceiling and of its requests     *)
(***************************************************************************)

\* C12: no page is requested at depth max_depth, and a resolution that ends
\* at the ceiling has made max_depth requests and returns, as a value, the
\* candidate the heuristics extracted from the page of the last URL
\* requested: a URL that was itself never requested.
C12_CeilingReturnsCandidate ==
    /\ pc = "fetch" => depth < max_depth
    /\ (pc = "resolved" /\ via = "max_depth") =>
          /\ depth = max_depth
          /\ nFetch = max_depth
          /\ ParsePage(fetched, page).recurse
          /\ destination_url = ParsePage(fetched, page).value
          /\ destination_url \notin {None, Raised}

\* At depth max_depth - 1 a meta refresh named the destination: it is
\* returned unrequested, the last URL requested being a shortener page.
C12_CandidateReturned ==
    /\ pc = "resolved"
    /\ via = "max_depth"
    /\ method = "meta"
    /\ fetched = "https://vplink.in/go"
    /\ destination_url = GofileUrl

\* C12 as stated: a resolution that ends at the ceiling returns the last
\* URL it requested.
C12_CeilingReturnsFetched ==
    (pc = "resolved" /\ via = "max_depth") => destination_url = fetched

\* C13: whatever the answers, a link's resolution makes at most one lookup
\* per endpoint (two) and at most max_depth page requests, the n-th of them
\* at depth n - 1.
C13_RequestsBounded ==
    /\ nApi <= Len(api_endpoints(short_url, VPLINK_API1_KEY))
    /\ nApi <= 2
    /\ nFetch <= max_depth
    /\ pc \in {"enter", "fetch"} => nFetch = depth
    /\ pc = "resolved" => nFetch \in {depth, depth + 1}

\* Both lookups and all max_depth page requests were made.
C13_AllRequestsMade ==
    /\ pc = "resolved"
    /\ nApi = 2
    /\ nFetch = max_depth

\* C14: when the request or the parse of the page at some depth raises, the
\* resolution ends there: the URL requested is get_destination_url's
\* result (a value, not None), and it was requested once at that depth.
C14_ExceptionReturnsUrl ==
    method = "error" =>
        /\ pc = "resolved"
        /\ via = "error"
        /\ destination_url = url
        /\ destination_url = fetched
        /\ destination_url \notin {None, Raised}
        /\ nFetch = depth + 1

\* The request of a page reached by one hop raised.
C14_RaisedAfterOneHop ==
    /\ pc = "resolved"
    /\ via = "error"
    /\ depth = 1
    /\ destination_url = "https://vplink.in/go"

\* The host of a URL names a configured destination domain.
HostIsDestination(u) ==
    \E k \in 1..Len(destination_domains) :
        Contains(destination_domains[k], UrlNetloc(u))

\* C15: what the anchor or the iframe heuristic returns is the link found
\* on the page just requested, returned without another request, and its
\* host names a destination domain.
C15_DirectDestinationHost ==
    (pc = "resolved" /\ via \in {"anchor", "iframe"}) =>
        /\ destination_url =
              (IF via = "anchor" THEN DestinationAnchor(page)
               ELSE DestinationIframe(page))
        /\ fetched = url
        /\ nFetch = depth + 1
        /\ HostIsDestination(destination_url)

\* The scripts of page p that hold a quoted gofile URL.
LiteralScripts(p) ==
    {k \in 1..Len(p.scripts) :
        Truthy(p.scripts[k]) /\ ScriptGofile(p.scripts[k]) # None}

\* C16: when the scripts decide a page and one of them holds a literal
\* destination URL, the first such URL is returned, whatever redirect
\* patterns the scripts before it hold.
C16_LiteralBeforePatterns ==
    (method = "script" /\ LiteralScripts(page) # {}) =>
        /\ pc = "resolved"
        /\ via = "script"
        /\ destination_url = ScriptGofile(page.scripts[Leftmost(LiteralScripts(page))])

\* A string that is a URL and nothing else.
PlausibleUrl(t) ==
    /\ StartsWith(t, "http://") \/ StartsWith(t, "https://")
    /\ CharsOf(t) \cap (Whitespace \cup {"<", ">", "\"", "[", "]"}) = {}

\* C17: a destination the endpoint loop returns is a destination field of
\* a JSON object with status success, or the stripped body of an answer
\* that is not JSON and is a URL.
C17_TextFallbackOnlyUrl ==
    (pc = "resolved" /\ via = "api") =>
        \/ /\ api_resp.json = "dict"
           /\ api_resp.data.status = "success"
           /\ destination_url = FirstDestinationField(api_resp.data)
        \/ /\ api_resp.json = "invalid"
           /\ PlausibleUrl(Strip(api_resp.text, Whitespace))
           /\ destination_url = Strip(api_resp.text, Whitespace)

\* C18: create_short_url is called exactly when get_destination_url
\* returned a non-empty value, for the candidate just resolved and after
\* the resolver is done, with that value as its argument, shortener URL or
\* not.
C18_ShortenAfterResolve ==
    /\ [](/\ pc \in {"shorten", "shortened"} =>
                /\ destination_url \notin {None, ""}
                /\ attempted[Len(attempted)] = short_url
                /\ Len(plan) = Len(attempted) - 1
                /\ nApi = 0 /\ nFetch = 0 /\ via = "none"
          /\ pc = "shortened" => shorten_arg = destination_url
          /\ shorten_arg # None => pc = "shortened")
    /\ [][/\ pc = "resolved" =>
                /\ pc' = (IF destination_url \in {None, ""} THEN "loop" ELSE "shorten")
                /\ pc' = "shorten" => destination_url' = destination_url
          /\ pc = "shorten" => (pc' = "shortened" /\ shorten_arg' = destination_url)
          /\ pc' = "shorten" => pc = "resolved"]_vars

\* The resolver gave the short link itself back, and create_short_url was
\* called on it.
C18_ShortenerReshortened ==
    /\ pc = "shortened"
    /\ shorten_arg = short_url
    /\ is_shortener(shorten_arg)

(***************************************************************************)
(* Properties of the handler as a whole                                    *)
(***************************************************************************)

\* The post comes from the source channel and holds a candidate link.
Relayed ==
    /\ message.chat_id = SOURCE_CHANNEL_ID
    /\ extract_vplink_urls(MessageText(message)) # <<>>

\* C19: only a post of the source channel with a candidate link is
\* resolved, re-shortened or posted; the handler ends without posting only
\* for other posts; and a post all of whose links failed is posted with its
\* text unchanged.
C19_PostsIffRelayed ==
    /\ ~Relayed =>
          /\ pc \in {"recv", "returned"}
          /\ posts = 0
          /\ attempted = <<>>
          /\ nApi = 0 /\ nFetch = 0
          /\ shorten_arg = None
    /\ pc = "returned" => ~Relayed
    /\ posts = 1 => Relayed
    /\ (pc = "done" /\ \A k \in 1..Len(plan) : Failed(plan[k])) =>
          /\ posts = 1
          /\ posted = MessageText(message)

\* A captioned post whose only link could not be resolved was posted as is.
C19_PostedUnchanged ==
    /\ pc = "done"
    /\ posts = 1
    /\ message.text = None
    /\ plan = <<"<unresolved>">>
    /\ posted = message.caption

====
